---- MODULE Spec2Model ----
(***************************************************************************)
(* Model of monika's history store (src/components/logger/history.ts) and  *)
(* of the Symon reporter (src/components/reporter/index.ts).               *)
(*                                                                         *)
(* The store is one sqlite file holding one table per log kind; the        *)
(* reporter reads the rows with reported = 0, posts them to the collector  *)
(* and, when the post resolves, updates reported = 1 for the ids it read.  *)
(* Every await of the code is a point where other handlers may run, so     *)
(* each handler is split into one action per statement handed to sqlite    *)
(* or to the network.                                                      *)
(***************************************************************************)
EXTENDS Integers, Sequences, FiniteSets, TLC

\* Number of rows a behaviour may insert (the clock stops there).
MaxClock == 2

\* The two tables the reporter reads and marks.
Kinds == {"requests", "notifications"}

\* Invocations of getLogsAndReport that may overlap: the timer fires again
\* whether or not the previous invocation has settled.
Reporters == {"r1", "r2"}

\* status_code values a probe result may carry.
StatusCodes == {200}

VARIABLES
  db,             \* the module-level handle: "none", "open", "closed", "failed"
  exists,         \* exists[k]: the table of kind k is present in the file
  history,        \* history[k]: the rows of the table, in rowid order
  now,            \* the last value of new Date() that saveLog stored
  flushPc,        \* position of flushAllLogs: "idle" or "dropped"
  pc,             \* pc[r]: position of invocation r of getLogsAndReport
  unreportedLog,  \* unreportedLog[r][k]: the rows invocation r read
  reportRes,      \* reportRes[r]: "none", "ok" (2xx) or "err"
  markRes,        \* markRes[r][k]: "none", "pending", "ok" or "err"
  warned,         \* warned[r]: log.warn("Can't report history to Symon") ran
  accepted,       \* rows (kind, created_at) the collector answered 2xx for
  openRes,        \* what the last openLogfile call of this process did
  saveRes         \* how the last saveLog call ended: "none", "ok", "logged"

vars == <<db, exists, history, now, flushPc, pc, unreportedLog, reportRes,
          markRes, warned, accepted, openRes, saveRes>>

storeVars == <<db, exists, history, now, flushPc, openRes, saveRes>>
reporterVars == <<pc, unreportedLog, reportRes, markRes, warned, accepted>>

----------------------------------------------------------------------------
\* Helpers on sequences

RECURSIVE SeqMax(_)
SeqMax(s) == IF s = <<>> THEN 0
             ELSE LET m == SeqMax(Tail(s))
                  IN IF Head(s) > m THEN Head(s) ELSE m

----------------------------------------------------------------------------
\* The store

\* A row of CREATE TABLE history: reported INTEGER DEFAULT 0.
NewRow(id, created, status) ==
  [id |-> id, created_at |-> created, status_code |-> status,
   reported |-> FALSE]

\* Variant: AUTOINCREMENT-like numbering that survives DROP TABLE.
NextRowidKept(rows) == now + 1

\* Variant: the largest rowid in use is handed out again.
NextRowidStale(rows) ==
  IF rows = <<>> THEN 1 ELSE SeqMax([i \in 1..Len(rows) |-> rows[i].id])

\* id INTEGER PRIMARY KEY without AUTOINCREMENT: sqlite assigns one more
\* than the largest rowid in the table, 1 for an empty table.
NextRowid(rows) == SeqMax([i \in 1..Len(rows) |-> rows[i].id]) + 1

\* Variant: CREATE TABLE after an unconditional DROP.
createTableFresh(ex, rows, k) == <<>>

\* CREATE TABLE IF NOT EXISTS: an existing table keeps its rows.
createTable(ex, rows, k) ==
  IF ex[k] THEN rows[k] ELSE <<>>

\* A statement handed to the handle runs only on an open database whose
\* table exists; otherwise sqlite calls back with an error.
Usable(k) == db = "open" /\ exists[k]

\* SELECT id, created_at, ..., error_resp FROM history WHERE reported = 0
UnreportedColumns(row) ==
  [id |-> row.id, created_at |-> row.created_at,
   status_code |-> row.status_code]

\* Variant: the SELECT has no WHERE clause.
IsUnreportedAny(row) == row.reported \in BOOLEAN

IsUnreported(row) == row.reported = FALSE

getUnreportedLogs(rows) ==
  LET sel == SelectSeq(rows, IsUnreported)
  IN [i \in 1..Len(sel) |-> UnreportedColumns(sel[i])]

\* SELECT rowid AS id, probe_id, status_code, ... FROM history
getAllLogs(rows) ==
  [i \in 1..Len(rows) |-> [id |-> rows[i].id,
                           status_code |-> rows[i].status_code]]

\* Variant: the UPDATE flips the flag of the rows it matched.
setLogsAsReportedToggle(rows, ids) ==
  [i \in 1..Len(rows) |->
     IF rows[i].id \in ids
     THEN [rows[i] EXCEPT !.reported = ~@]
     ELSE rows[i]]

\* Variant: the UPDATE removes the rows it matched.
setLogsAsReportedDeletes(rows, ids) ==
  LET Kept(row) == row.id \notin ids
  IN SelectSeq(rows, Kept)

\* Variant: the UPDATE has no WHERE clause.
setLogsAsReportedAll(rows, ids) ==
  [i \in 1..Len(rows) |-> [rows[i] EXCEPT !.reported = TRUE]]

\* UPDATE history SET reported = 1 WHERE id IN (ids): rows whose id is not
\* in the table match nothing and raise no error.
setLogsAsReported(rows, ids) ==
  [i \in 1..Len(rows) |->
     IF rows[i].id \in ids
     THEN [rows[i] EXCEPT !.reported = TRUE]
     ELSE rows[i]]

\* What an openLogfile call did: threw to its caller, logged the open
\* error, called createTable.
NotOpened == [threw |-> FALSE, logged |-> FALSE, schema |-> FALSE]

----------------------------------------------------------------------------
Init ==
  /\ db = "none"
  /\ exists = [k \in Kinds |-> FALSE]
  /\ history = [k \in Kinds |-> <<>>]
  /\ now = 0
  /\ flushPc = "idle"
  /\ pc = [r \in Reporters |-> "idle"]
  /\ unreportedLog = [r \in Reporters |-> [k \in Kinds |-> <<>>]]
  /\ reportRes = [r \in Reporters |-> "none"]
  /\ markRes = [r \in Reporters |-> [k \in Kinds |-> "none"]]
  /\ warned = [r \in Reporters |-> FALSE]
  /\ accepted = {}
  /\ openRes = NotOpened
  /\ saveRes = "none"

\* openLogfile: new sqlite3.Database(path, READWRITE | CREATE, callback);
\* the callback logs an open error and calls createTable in either case.
\* The callback is an I/O callback: it cannot run between the two
\* statements of flushAllLogs, which are one microtask apart.
openLogfile(ok) ==
  /\ db # "open"
  /\ flushPc = "idle"
  /\ db' = IF ok THEN "open" ELSE "failed"
  /\ openRes' = [threw |-> FALSE, logged |-> ~ok, schema |-> TRUE]
  /\ IF ok
     THEN /\ history' = [k \in Kinds |-> createTable(exists, history, k)]
          /\ exists' = [k \in Kinds |-> TRUE]
     ELSE UNCHANGED <<exists, history>>
  /\ UNCHANGED <<now, flushPc, saveRes>>
  /\ UNCHANGED reporterVars

\* closeLog: db.close()
closeLog ==
  /\ db = "open"
  /\ db' = "closed"
  /\ UNCHANGED <<exists, history, now, flushPc, openRes, saveRes>>
  /\ UNCHANGED reporterVars

\* Variant: the INSERT error is thrown to the caller of saveLog.
saveLogThrows(k, status, err) ==
  /\ now < MaxClock
  /\ db # "none"
  /\ IF Usable(k) /\ ~err
     THEN /\ history' = [history EXCEPT ![k] =
               Append(@, NewRow(NextRowid(@), now + 1, status))]
          /\ now' = now + 1
          /\ saveRes' = "ok"
     ELSE /\ UNCHANGED <<history, now>>
          /\ saveRes' = "threw"
  /\ UNCHANGED <<db, exists, flushPc, openRes>>
  /\ UNCHANGED reporterVars

\* saveLog: one INSERT; an error is logged in the callback and the call
\* returns normally.  The clock has moved on since the last stored row, so
\* created_at identifies the row.  Probes run after start-up has assigned
\* the handle.
saveLog(k, status, err) ==
  /\ now < MaxClock
  /\ db # "none"
  /\ IF Usable(k) /\ ~err
     THEN /\ history' = [history EXCEPT ![k] =
               Append(@, NewRow(NextRowid(@), now + 1, status))]
          /\ now' = now + 1
          /\ saveRes' = "ok"
     ELSE /\ UNCHANGED <<history, now>>
          /\ saveRes' = "logged"
  /\ UNCHANGED <<db, exists, flushPc, openRes>>
  /\ UNCHANGED reporterVars

\* flushAllLogs, first statement: DROP TABLE IF EXISTS history
flushDrop ==
  /\ db = "open"
  /\ flushPc = "idle"
  /\ flushPc' = "dropped"
  /\ exists' = [k \in Kinds |-> FALSE]
  /\ history' = [k \in Kinds |-> <<>>]
  /\ UNCHANGED <<db, now, openRes, saveRes>>
  /\ UNCHANGED reporterVars

\* flushAllLogs, second statement: createTable()
flushCreate ==
  /\ flushPc = "dropped"
  /\ flushPc' = "idle"
  /\ IF db = "open"
     THEN /\ history' = [k \in Kinds |-> createTable(exists, history, k)]
          /\ exists' = [k \in Kinds |-> TRUE]
     ELSE UNCHANGED <<exists, history>>
  /\ UNCHANGED <<db, now, openRes, saveRes>>
  /\ UNCHANGED reporterVars

----------------------------------------------------------------------------
\* The reporter

\* Variant: the row is posted as read.
WithoutIdKeeps(row) == row

\* ({ id: _, ...rest }) => rest
WithoutId(row) ==
  [created_at |-> row.created_at, status_code |-> row.status_code]

Payload(log) ==
  [k \in Kinds |-> [i \in 1..Len(log[k]) |-> WithoutId(log[k][i])]]

Ids(rows) == {rows[i].id : i \in 1..Len(rows)}

RowKeys(log) ==
  UNION {{<<k, log[k][i].created_at>> : i \in 1..Len(log[k])} : k \in Kinds}

\* The rows a posted body carries, as the collector identifies them.
PayloadKeys(p) ==
  UNION {{<<k, p[k][i].created_at>> : i \in 1..Len(p[k])} : k \in Kinds}

Settled(r) == pc[r] \in {"idle", "done"}

\* Variant: the batch is read before config.symon is looked at.
reportSkipReads(r) ==
  /\ Settled(r)
  /\ pc' = [pc EXCEPT ![r] = "done"]
  /\ unreportedLog' = [unreportedLog EXCEPT ![r] =
       [k \in Kinds |-> getUnreportedLogs(history[k])]]
  /\ reportRes' = [reportRes EXCEPT ![r] = "none"]
  /\ markRes' = [markRes EXCEPT ![r] = [k \in Kinds |-> "none"]]
  /\ warned' = [warned EXCEPT ![r] = FALSE]
  /\ UNCHANGED accepted
  /\ UNCHANGED storeVars

\* getLogsAndReport with config.symon absent: nothing is done.
reportSkip(r) ==
  /\ Settled(r)
  /\ pc' = [pc EXCEPT ![r] = "done"]
  /\ unreportedLog' = [unreportedLog EXCEPT ![r] = [k \in Kinds |-> <<>>]]
  /\ reportRes' = [reportRes EXCEPT ![r] = "none"]
  /\ markRes' = [markRes EXCEPT ![r] = [k \in Kinds |-> "none"]]
  /\ warned' = [warned EXCEPT ![r] = FALSE]
  /\ UNCHANGED accepted
  /\ UNCHANGED storeVars

\* await getUnreportedLogs(), then the call of report(): the post is in
\* flight when the read resolved; a rejected read goes to the catch.
readBatch(r, err) ==
  /\ Settled(r)
  /\ reportRes' = [reportRes EXCEPT ![r] = "none"]
  /\ markRes' = [markRes EXCEPT ![r] = [k \in Kinds |-> "none"]]
  /\ IF (\A k \in Kinds : Usable(k)) /\ ~err
     THEN /\ unreportedLog' = [unreportedLog EXCEPT ![r] =
               [k \in Kinds |-> getUnreportedLogs(history[k])]]
          /\ pc' = [pc EXCEPT ![r] = "report"]
          /\ warned' = [warned EXCEPT ![r] = FALSE]
     ELSE /\ unreportedLog' = [unreportedLog EXCEPT ![r] =
               [k \in Kinds |-> <<>>]]
          /\ pc' = [pc EXCEPT ![r] = "done"]
          /\ warned' = [warned EXCEPT ![r] = TRUE]
  /\ UNCHANGED accepted
  /\ UNCHANGED storeVars

\* Variant: the invocation returns after the 2xx answer without marking.
reportOkNoMark(r) ==
  /\ pc[r] = "report"
  /\ accepted' = accepted \cup PayloadKeys(Payload(unreportedLog[r]))
  /\ reportRes' = [reportRes EXCEPT ![r] = "ok"]
  /\ pc' = [pc EXCEPT ![r] = "done"]
  /\ UNCHANGED <<unreportedLog, warned, markRes>>
  /\ UNCHANGED storeVars

\* report() resolves: the collector answered 2xx.  Both UPDATE statements
\* are handed to sqlite before Promise.all is awaited.
reportOk(r) ==
  /\ pc[r] = "report"
  /\ accepted' = accepted \cup PayloadKeys(Payload(unreportedLog[r]))
  /\ reportRes' = [reportRes EXCEPT ![r] = "ok"]
  /\ markRes' = [markRes EXCEPT ![r] = [k \in Kinds |-> "pending"]]
  /\ pc' = [pc EXCEPT ![r] = "mark"]
  /\ UNCHANGED <<unreportedLog, warned>>
  /\ UNCHANGED storeVars

\* Variant: the rejection is swallowed and the ids are marked all the same.
reportErrMarks(r) ==
  /\ pc[r] = "report"
  /\ reportRes' = [reportRes EXCEPT ![r] = "err"]
  /\ warned' = [warned EXCEPT ![r] = TRUE]
  /\ markRes' = [markRes EXCEPT ![r] = [k \in Kinds |-> "pending"]]
  /\ pc' = [pc EXCEPT ![r] = "mark"]
  /\ UNCHANGED <<unreportedLog, accepted>>
  /\ UNCHANGED storeVars

\* report() rejects: transport error or a status outside 2xx.
reportErr(r) ==
  /\ pc[r] = "report"
  /\ reportRes' = [reportRes EXCEPT ![r] = "err"]
  /\ warned' = [warned EXCEPT ![r] = TRUE]
  /\ pc' = [pc EXCEPT ![r] = "done"]
  /\ UNCHANGED <<unreportedLog, markRes, accepted>>
  /\ UNCHANGED storeVars

\* Variant: the UPDATE takes the ids from the table when it runs, not from
\* the rows read before the upload.
markStepLive(r, k, err) ==
  /\ pc[r] = "mark"
  /\ markRes[r][k] = "pending"
  /\ LET ok == Usable(k) /\ ~err
         res == [markRes[r] EXCEPT ![k] = IF ok THEN "ok" ELSE "err"]
         over == \A j \in Kinds : res[j] # "pending"
     IN /\ markRes' = [markRes EXCEPT ![r] = res]
        /\ IF ok
           THEN history' = [history EXCEPT ![k] =
                  setLogsAsReported(@, Ids(getUnreportedLogs(@)))]
           ELSE UNCHANGED history
        /\ pc' = [pc EXCEPT ![r] = IF over THEN "done" ELSE "mark"]
        /\ warned' = [warned EXCEPT ![r] =
                        over /\ \E j \in Kinds : res[j] = "err"]
  /\ UNCHANGED <<db, exists, now, flushPc, openRes, saveRes>>
  /\ UNCHANGED <<unreportedLog, reportRes, accepted>>

\* One of the two UPDATE statements runs.  Promise.all rejects when either
\* rejected, and the catch logs the warning.
markStep(r, k, err) ==
  /\ pc[r] = "mark"
  /\ markRes[r][k] = "pending"
  /\ LET ok == Usable(k) /\ ~err
         res == [markRes[r] EXCEPT ![k] = IF ok THEN "ok" ELSE "err"]
         over == \A j \in Kinds : res[j] # "pending"
     IN /\ markRes' = [markRes EXCEPT ![r] = res]
        /\ IF ok
           THEN history' = [history EXCEPT ![k] =
                  setLogsAsReported(@, Ids(unreportedLog[r][k]))]
           ELSE UNCHANGED history
        /\ pc' = [pc EXCEPT ![r] = IF over THEN "done" ELSE "mark"]
        /\ warned' = [warned EXCEPT ![r] =
                        over /\ \E j \in Kinds : res[j] = "err"]
  /\ UNCHANGED <<db, exists, now, flushPc, openRes, saveRes>>
  /\ UNCHANGED <<unreportedLog, reportRes, accepted>>

\* The process is killed: every handler in progress is abandoned, the
\* handle is gone, the file keeps what sqlite committed.
crash ==
  /\ db # "none"
  /\ db' = "none"
  /\ flushPc' = "idle"
  /\ pc' = [r \in Reporters |-> "idle"]
  /\ unreportedLog' = [r \in Reporters |-> [k \in Kinds |-> <<>>]]
  /\ reportRes' = [r \in Reporters |-> "none"]
  /\ markRes' = [r \in Reporters |-> [k \in Kinds |-> "none"]]
  /\ warned' = [r \in Reporters |-> FALSE]
  /\ openRes' = NotOpened
  /\ saveRes' = "none"
  /\ UNCHANGED <<exists, history, now, accepted>>

----------------------------------------------------------------------------
NextNoFlush ==
  \/ \E ok \in BOOLEAN : openLogfile(ok)
  \/ closeLog
  \/ \E k \in Kinds, s \in StatusCodes, err \in BOOLEAN : saveLog(k, s, err)
  \/ \E r \in Reporters : reportSkip(r)
  \/ \E r \in Reporters, err \in BOOLEAN : readBatch(r, err)
  \/ \E r \in Reporters : reportOk(r)
  \/ \E r \in Reporters : reportErr(r)
  \/ \E r \in Reporters, k \in Kinds, err \in BOOLEAN : markStep(r, k, err)
  \/ crash

Next ==
  \/ NextNoFlush
  \/ flushDrop
  \/ flushCreate

Spec == Init /\ [][Next]_vars

SpecNoFlush == Init /\ [][NextNoFlush]_vars

\* The happy path: the store opens, every statement succeeds, every upload
\* is answered 2xx, no close, crash or flush.  The timer still starts an
\* invocation whether or not the previous one has settled.
NextHappy ==
  \/ openLogfile(TRUE)
  \/ \E k \in Kinds, s \in StatusCodes : saveLog(k, s, FALSE)
  \/ \E r \in Reporters : readBatch(r, FALSE)
  \/ \E r \in Reporters : reportOk(r)
  \/ \E r \in Reporters, k \in Kinds : markStep(r, k, FALSE)

SpecHappy == Init /\ [][NextHappy]_vars

\* The process stays up and the store stays open once opened.  The timer
\* keeps starting invocations: one chain of invocations (slot Timer) always
\* gets to run again, its uploads are answered 2xx again and again, and its
\* sqlite statements do not fail for ever.  Nothing is assumed of the
\* invocations that overlap it.
NextLive ==
  \/ \E ok \in BOOLEAN : openLogfile(ok)
  \/ \E k \in Kinds, s \in StatusCodes, err \in BOOLEAN : saveLog(k, s, err)
  \/ \E r \in Reporters : reportSkip(r)
  \/ \E r \in Reporters, err \in BOOLEAN : readBatch(r, err)
  \/ \E r \in Reporters : reportOk(r)
  \/ \E r \in Reporters : reportErr(r)
  \/ \E r \in Reporters, k \in Kinds, err \in BOOLEAN : markStep(r, k, err)

Timer == "r1"

Fairness ==
  /\ WF_vars(openLogfile(TRUE))
  /\ WF_vars(readBatch(Timer, FALSE))
  /\ SF_vars(reportOk(Timer))
  /\ \A k \in Kinds : SF_vars(markStep(Timer, k, FALSE))

SpecLive == Init /\ [][NextLive]_vars /\ Fairness

----------------------------------------------------------------------------
\* Observations used by the properties

SeqRange(s) == {s[i] : i \in 1..Len(s)}

Rows(k) == SeqRange(history[k])

\* What listUnreported returns for table k in the current state.
Listed(k) == SeqRange(getUnreportedLogs(history[k]))

\* What listAllRequestLogs returns for table k in the current state.
ListedAll(k) == SeqRange(getAllLogs(history[k]))

AllColumns(b) == [id |-> b.id, status_code |-> b.status_code]

Batch(r, k) == SeqRange(unreportedLog[r][k])

BatchEmpty(r) == \A k \in Kinds : unreportedLog[r][k] = <<>>

Alone(r) == \A q \in Reporters \ {r} : pc[q] = "idle"

UploadFailed(r) == pc[r] = "done" /\ reportRes[r] = "err"

MarkedAll(r) ==
  /\ pc[r] = "done"
  /\ reportRes[r] = "ok"
  /\ \A k \in Kinds : markRes[r][k] = "ok"

----------------------------------------------------------------------------
\* C1: when the upload of an invocation fails, the step that handles the
\* rejection changes no table, and (no other invocation having run) every
\* row of the batch is still returned by listUnreported with the same
\* field values once the invocation has settled.
FailedUploadKeepsBatch ==
  \A r \in Reporters :
    (UploadFailed(r) /\ Alone(r)) =>
      \A k \in Kinds : Batch(r, k) \subseteq Listed(k)

FailedUploadStep ==
  \A r \in Reporters :
    (pc[r] = "report" /\ reportRes'[r] = "err") => history' = history

ThmC1 == []FailedUploadKeepsBatch /\ [][FailedUploadStep]_vars

WitC1 ==
  \E r \in Reporters :
    UploadFailed(r) /\ Alone(r) /\ warned[r] /\ ~BatchEmpty(r)

\* C2: after a 2xx answer and two successful UPDATEs, every row of the
\* batch, in either table, has reported = 1, is not returned by
\* listUnreported and is still returned by listAllRequestLogs.
ThmC2 ==
  \A r \in Reporters :
    MarkedAll(r) =>
      \A k \in Kinds : \A b \in Batch(r, k) :
        /\ b \notin Listed(k)
        /\ AllColumns(b) \in ListedAll(k)
        /\ \E row \in Rows(k) :
              UnreportedColumns(row) = b /\ row.reported

WitC2 ==
  \E r \in Reporters :
    MarkedAll(r) /\ \A k \in Kinds : unreportedLog[r][k] # <<>>

\* C3: every row with reported = 1 was in the payload of an upload the
\* collector answered 2xx, whatever the interleaving of inserts,
\* invocations, collector answers, closes and crashes.
ThmC3 ==
  \A k \in Kinds : \A row \in Rows(k) :
    row.reported => <<k, row.created_at>> \in accepted

\* A crash after the 2xx answer left an accepted row unmarked, and another
\* row is marked.
WitC3 ==
  /\ \E k \in Kinds : \E row \in Rows(k) : row.reported
  /\ \E k \in Kinds : \E row \in Rows(k) :
       ~row.reported /\ <<k, row.created_at>> \in accepted
  /\ \A r \in Reporters : pc[r] = "idle"

\* C4: at-least-once delivery.  With the process up, invocations started
\* again and again, the collector answering 2xx again and again and no
\* flush, every inserted row is eventually accepted and marked reported;
\* and each successful read takes every row that is unreported then, so a
\* row left unreported by a failed cycle is in the next batch.
RowAt(k, t) == {row \in Rows(k) : row.created_at = t}

Delivered(k, t) ==
  /\ <<k, t>> \in accepted
  /\ \E row \in RowAt(k, t) : row.reported

ReadTakesUnreported ==
  \A r \in Reporters :
    (Settled(r) /\ pc'[r] = "report") =>
      \A k \in Kinds :
        SeqRange(unreportedLog'[r][k]) =
          {UnreportedColumns(row) : row \in {x \in Rows(k) : ~x.reported}}

ThmC4 ==
  /\ \A k \in Kinds : \A t \in 1..MaxClock :
       (RowAt(k, t) # {}) ~> Delivered(k, t)
  /\ [][ReadTakesUnreported]_vars

\* A row went through a failed upload and was then accepted and marked.
WitC4 ==
  \E r \in Reporters : \E q \in Reporters \ {r} : \E k \in Kinds :
    /\ UploadFailed(r)
    /\ \E b \in Batch(r, k) : Delivered(k, b.created_at)
    /\ MarkedAll(q)

\* C5: the reported flag is monotone.  In every step (insert, UPDATE,
\* open, close, crash, flush) a row that stays in its table and had
\* reported = 1 still has it, and a row that enters a table has
\* reported = 0.
MonotoneStep ==
  \A k \in Kinds : \A i \in 1..Len(history'[k]) :
    LET new == history'[k][i]
        old == RowAt(k, new.created_at)
    IN /\ old = {} => ~new.reported
       /\ \A row \in old : row.reported => new.reported

ThmC5 == [][MonotoneStep]_vars

\* Two overlapping invocations read the same row and both marked it: the
\* second UPDATE found it reported and left it reported.
WitC5 ==
  /\ db = "open"
  /\ \A r \in Reporters : MarkedAll(r)
  /\ \E k \in Kinds : \E row \in Rows(k) :
       /\ row.reported
       /\ \A r \in Reporters : UnreportedColumns(row) \in Batch(r, k)

\* C6: listUnreported returns exactly the rows with reported = 0: no row
\* whose id a successful UPDATE of a settled or running invocation named,
\* and every row the collector never accepted (so never marked).
ThmC6 ==
  \A k \in Kinds :
    /\ \A r \in Reporters :
         markRes[r][k] = "ok" =>
           Ids(unreportedLog[r][k]) \cap {b.id : b \in Listed(k)} = {}
    /\ \A row \in Rows(k) :
         <<k, row.created_at>> \notin accepted =>
           UnreportedColumns(row) \in Listed(k)
    /\ Listed(k) = {UnreportedColumns(row) :
                      row \in {x \in Rows(k) : ~x.reported}}

WitC6 ==
  \E r \in Reporters : \E k \in Kinds :
    /\ markRes[r][k] = "ok"
    /\ unreportedLog[r][k] # <<>>
    /\ Listed(k) # {}

\* C7: getLogsAndReport called with no unreported row in either table
\* makes no call to the collector.
NoEmptyUpload ==
  \A r \in Reporters : pc[r] = "report" => ~BatchEmpty(r)

\* C8: read, upload and mark happen in that order on one snapshot.  The
\* rows read stay the same until the invocation settles, they are rows of
\* the table at the time of the read, an UPDATE sets the flag only of rows
\* in the snapshot of the invocation that issued it, and a row inserted
\* after the read of a lone invocation is still unreported afterwards.
OrderStep ==
  \A r \in Reporters :
    /\ pc'[r] = "report" => pc[r] \in {"idle", "done", "report"}
    /\ pc'[r] = "mark" => pc[r] \in {"report", "mark"}
    /\ (pc[r] \in {"report", "mark"} /\ pc'[r] \in {"report", "mark", "done"})
         => unreportedLog'[r] = unreportedLog[r]
    /\ (Settled(r) /\ pc'[r] = "report") =>
         \A k \in Kinds :
           SeqRange(unreportedLog'[r][k]) \subseteq
             {UnreportedColumns(row) : row \in Rows(k)}

FlipStep ==
  \A k \in Kinds : \A i \in 1..Len(history'[k]) :
    \A row \in RowAt(k, history'[k][i].created_at) :
      (~row.reported /\ history'[k][i].reported) =>
        \E r \in Reporters :
          /\ pc[r] = "mark"
          /\ markRes[r][k] = "pending"
          /\ markRes'[r][k] = "ok"
          /\ UnreportedColumns(row) \in Batch(r, k)

Younger(row, r, k) ==
  /\ Batch(r, k) # {}
  /\ \A b \in Batch(r, k) : row.created_at > b.created_at

YoungerUnmarked ==
  \A r \in Reporters :
    (Alone(r) /\ pc[r] \in {"report", "mark", "done"}) =>
      \A k \in Kinds : \A row \in Rows(k) :
        Younger(row, r, k) =>
          /\ UnreportedColumns(row) \notin Batch(r, k)
          /\ UnreportedColumns(row) \in Listed(k)

ThmC8 == []YoungerUnmarked /\ [][OrderStep /\ FlipStep]_vars

WitC8 ==
  \E r \in Reporters : \E k \in Kinds : \E row \in Rows(k) :
    /\ Alone(r)
    /\ MarkedAll(r)
    /\ Younger(row, r, k)
    /\ ~row.reported

\* C9: after a 2xx answer the two tables are marked independently, and a
\* failed UPDATE is not handled as a failed upload: the other table's rows
\* are marked and the upload warning is not logged.
MarkFailureIsNotUploadFailure ==
  \A r \in Reporters :
    (pc[r] = "done" /\ reportRes[r] = "ok"
       /\ \E k \in Kinds : markRes[r][k] = "err") =>
      /\ ~warned[r]
      /\ \A k \in Kinds :
           (markRes[r][k] = "ok" /\ Alone(r)) =>
             \A b \in Batch(r, k) : b \notin Listed(k)

\* C10: an UPDATE naming an id that is not in the table fails; one naming
\* ids that are all in the table sets reported = 1 for exactly those rows.
MarkStepC10 ==
  \A r \in Reporters : \A k \in Kinds :
    (pc[r] = "mark" /\ markRes[r][k] = "pending" /\ markRes'[r][k] = "ok") =>
      /\ Ids(unreportedLog[r][k]) \subseteq Ids(history[k])
      /\ Len(history'[k]) = Len(history[k])
      /\ \A i \in 1..Len(history[k]) :
           history'[k][i] =
             IF history[k][i].id \in Ids(unreportedLog[r][k])
             THEN [history[k][i] EXCEPT !.reported = TRUE]
             ELSE history[k][i]

MissingIdFails == [][MarkStepC10]_vars

\* C11: the step that completes a flush leaves every table present and
\* empty, so listAllRequestLogs and listUnreported return nothing; and the
\* first row inserted into an empty table, after a flush as in a new
\* store, gets id 1.
FlushCompletes ==
  (flushPc = "dropped" /\ flushPc' = "idle" /\ db' = "open") =>
    \A k \in Kinds :
      /\ exists'[k]
      /\ SeqRange(getAllLogs(history'[k])) = {}
      /\ SeqRange(getUnreportedLogs(history'[k])) = {}

FirstIdStep ==
  \A k \in Kinds :
    (history[k] = <<>> /\ history'[k] # <<>>) =>
      /\ Len(history'[k]) = 1
      /\ history'[k][1].id = 1

ThmC11 == [][FlushCompletes /\ FirstIdStep]_vars

\* The first row is gone and the row inserted after the flush has id 1.
WitC11 ==
  /\ flushPc = "idle"
  /\ \E k \in Kinds :
       /\ history[k] = <<NewRow(1, 2, 200)>>
       /\ \A j \in Kinds \ {k} : history[j] = <<>>

\* C12: flush is atomic for the other store operations: an open store
\* always has its tables, and no insert issued while a table is dropped
\* and not yet recreated is lost.
NoDroppedState == db = "open" => \A k \in Kinds : exists[k]

NoLostInsertStep ==
  (db = "open" /\ \E k \in Kinds : ~exists[k]) =>
    ~(saveRes' = "logged" /\ saveRes # "logged")

FlushIsAtomic == []NoDroppedState /\ [][NoLostInsertStep]_vars

\* C13: a saveLog call makes exactly one insert; a failed insert is logged,
\* the call returns normally and the store is as it was.
ReturnsNormally == saveRes \in {"none", "ok", "logged"}

SaveStep ==
  /\ \A k \in Kinds :
       Len(history'[k]) > Len(history[k]) =>
         /\ Len(history'[k]) = Len(history[k]) + 1
         /\ SubSeq(history'[k], 1, Len(history[k])) = history[k]
         /\ \A j \in Kinds \ {k} : history'[j] = history[j]
         /\ saveRes' = "ok"
  /\ (saveRes' = "logged" /\ saveRes # "logged") =>
       /\ history' = history
       /\ exists' = exists

ThmC13 == []ReturnsNormally /\ [][SaveStep]_vars

\* An insert failed on an open store that holds a row: it was logged and
\* the row is still there.
WitC13 ==
  /\ saveRes = "logged"
  /\ db = "open"
  /\ \E k \in Kinds : Len(history[k]) = 1

\* C14: opening is non-destructive and the flag is durable.  A step that
\* changes the handle (open, close, crash) changes no row, id or flag and
\* removes no table.
HandleStep ==
  db' # db =>
    /\ history' = history
    /\ \A k \in Kinds : exists[k] => exists'[k]
    /\ \A k \in Kinds :
         SeqRange(getUnreportedLogs(history'[k])) = Listed(k)

ThmC14 == [][HandleStep]_vars

\* The process went down after rows were marked and the store was opened
\* again: the marked row is still marked, the other still unreported.
WitC14 ==
  /\ db = "open"
  /\ \A r \in Reporters : pc[r] = "idle"
  /\ \E k \in Kinds : \E row \in Rows(k) :
       row.reported /\ UnreportedColumns(row) \notin Listed(k)
  /\ \E k \in Kinds : Listed(k) # {}

\* C15: the posted body has, for each table, one entry per row read, in
\* the same order, with every field of the row but id and the same values.
PayloadOf(r) == Payload(unreportedLog[r])

ThmC15 ==
  \A r \in Reporters :
    pc[r] \in {"report", "mark", "done"} =>
      \A k \in Kinds :
        /\ Len(PayloadOf(r)[k]) = Len(unreportedLog[r][k])
        /\ \A i \in 1..Len(unreportedLog[r][k]) :
             LET row == unreportedLog[r][k][i]
                 entry == PayloadOf(r)[k][i]
             IN /\ DOMAIN entry = DOMAIN row \ {"id"}
                /\ \A f \in DOMAIN entry : entry[f] = row[f]

WitC15 ==
  \E r \in Reporters : \E k \in Kinds :
    /\ pc[r] = "report"
    /\ Len(unreportedLog[r][k]) = 2

\* C16: a failed open throws to the caller and is followed by no schema
\* creation on the handle that did not open.
OpenFailurePropagates ==
  db = "failed" => (openRes.threw /\ ~openRes.schema)

\* C17: on the happy path no row is posted twice: two invocations that
\* have posted never carry the same row.
Posted(r) == pc[r] \in {"report", "mark", "done"}

UploadedOnce ==
  \A r \in Reporters : \A q \in Reporters \ {r} :
    (Posted(r) /\ Posted(q)) =>
      PayloadKeys(PayloadOf(r)) \cap PayloadKeys(PayloadOf(q)) = {}

\* C18: between two flushes the ids of a table are unique and increase
\* with insertion, and no step but the DROP of a flush changes the id of a
\* row or removes a row.
IdsIncreasing ==
  \A k \in Kinds : \A i, j \in 1..Len(history[k]) :
    i < j => history[k][i].id < history[k][j].id

IdStep ==
  \A k \in Kinds :
    \/ flushPc = "idle" /\ flushPc' = "dropped"
    \/ /\ Len(history'[k]) >= Len(history[k])
       /\ \A i \in 1..Len(history[k]) :
            /\ history'[k][i].id = history[k][i].id
            /\ history'[k][i].created_at = history[k][i].created_at

ThmC18 == []IdsIncreasing /\ [][IdStep]_vars

WitC18 ==
  \E k \in Kinds :
    /\ Len(history[k]) = 2
    /\ history[k][1].reported
    /\ ~history[k][2].reported

\* C19: an UPDATE issued after a flush and new inserts does not set the
\* flag of a row that is not in the snapshot of the invocation issuing
\* it, even when the row has the id of a snapshot row.
MarkSparesFreshRows == [][FlipStep]_vars

\* C20: with config.symon absent an invocation reads no batch, posts
\* nothing and marks nothing: the step leaves the store and what the
\* collector accepted unchanged.
Skipped(r) == pc[r] = "done" /\ reportRes[r] = "none" /\ ~warned[r]

SkipReadsNothing ==
  \A r \in Reporters :
    Skipped(r) =>
      /\ BatchEmpty(r)
      /\ \A k \in Kinds : markRes[r][k] = "none"

SkipStep ==
  \A r \in Reporters :
    (~Skipped(r) /\ pc'[r] = "done" /\ reportRes'[r] = "none"
       /\ ~warned'[r]) =>
      /\ UNCHANGED <<db, exists, history, now, flushPc>>
      /\ accepted' = accepted

ThmC20 == []SkipReadsNothing /\ [][SkipStep]_vars

WitC20 ==
  \E r \in Reporters :
    /\ Skipped(r)
    /\ db = "open"
    /\ \E k \in Kinds : Listed(k) # {}

====
